---- MODULE Spec2Model ----
(***************************************************************************)
(* Model of the playlist scheduler: the duration codec, the two packers    *)
(* (create_schedule_time_based, create_schedule_day_based), the summary    *)
(* calculator of api/model.py and the schedule handlers of api/app.py.     *)
(***************************************************************************)
EXTENDS Integers, Sequences, FiniteSets, TLC

(* ---------------------------- bounds ----------------------------------- *)
\* longest item sequence handed to a packer
MaxItems == 4
\* largest number of days asked of the day-count packer
MaxDays == 4
\* longest playlist the item source returns to a handler
MaxFetch == 2

\* item durations in seconds, as the item source reports them
DurSet == {0, 600, 1200}
\* daily study time in minutes offered to the time-budget packer
MinuteSet == {-1, 0, 1, 10, 20}
\* number of days offered to the day-count packer
DaySet == -1..MaxDays
\* largest hour count given to the duration codec
MaxHours == 1000
\* seconds given to format_duration: hours below, at and above 24 and 99
CodecSeconds ==
  {h * 3600 + m * 60 + sec :
     h \in {0, 1, 23, 24, 25, 99, 100, MaxHours}, m \in {0, 1, 59},
     sec \in {0, 9, 10, 59}}

(* ------------------------ python helpers ------------------------------- *)
None == 0

RECURSIVE SumSeq(_)
SumSeq(s) == IF s = <<>> THEN 0 ELSE Head(s) + SumSeq(Tail(s))

RECURSIVE SelectSeqOf(_, _)
\* [x for x in s if Test(x)] is SelectSeq; this one flattens a list of lists
SelectSeqOf(ss, acc) ==
  IF ss = <<>> THEN acc ELSE SelectSeqOf(Tail(ss), acc \o Head(ss))

Range(s) == {s[i] : i \in 1..Len(s)}

(* -------------------------- duration codec ----------------------------- *)
Digits == <<"0", "1", "2", "3", "4", "5", "6", "7", "8", "9">>

DigitVal(c) == CHOOSE d \in 0..9 : Digits[d + 1] = c

RECURSIVE IntToStr(_)
\* str(n) for n >= 0, as a sequence of characters
IntToStr(n) ==
  IF n < 10 THEN <<Digits[n + 1]>>
  ELSE IntToStr(n \div 10) \o <<Digits[(n % 10) + 1]>>

\* the format spec ":02": at least two characters, padded with zeros
Pad02(n) == IF n < 10 THEN <<"0">> \o IntToStr(n) ELSE IntToStr(n)

\* mutant: the hours wrap at a day, as a clock time would
format_duration_WrapDay(secs_in) ==
  LET hours == (secs_in \div 3600) % 24
      remainder == secs_in % 3600
      minutes == remainder \div 60
      secs == remainder % 60
  IN  Pad02(hours) \o <<":">> \o Pad02(minutes) \o <<":">> \o Pad02(secs)

format_duration(seconds) ==
  LET hours == seconds \div 3600
      remainder == seconds % 3600
      minutes == remainder \div 60
      secs == remainder % 60
  IN  Pad02(hours) \o <<":">> \o Pad02(minutes) \o <<":">> \o Pad02(secs)

RECURSIVE Split(_, _, _)
\* str.split(':'): cur is the part being read, acc the parts already closed
Split(str, cur, acc) ==
  IF str = <<>> THEN Append(acc, cur)
  ELSE IF Head(str) = ":" THEN Split(Tail(str), <<>>, Append(acc, cur))
  ELSE Split(Tail(str), Append(cur, Head(str)), acc)

RECURSIVE StrToInt(_, _)
\* int(part) for a part made of decimal digits
StrToInt(part, acc) ==
  IF part = <<>> THEN acc
  ELSE StrToInt(Tail(part), 10 * acc + DigitVal(Head(part)))

\* s[-n:] of a python list
LastN(s, n) == IF Len(s) <= n THEN s ELSE SubSeq(s, Len(s) - n + 1, Len(s))

parse_duration(duration_str) ==
  LET strs == Split(duration_str, <<>>, <<>>)
      parts == [i \in 1..Len(strs) |-> StrToInt(strs[i], 0)]
      multipliers == <<3600, 60, 1>>
      ps == LastN(parts, 3)
      ms == LastN(multipliers, Len(parts))
      n == IF Len(ps) < Len(ms) THEN Len(ps) ELSE Len(ms)
  IN  SumSeq([i \in 1..n |-> ps[i] * ms[i]])

(* ------------------------------ items ---------------------------------- *)
\* one entry of fetch_playlist_details: the link identifies the video
Video(id, secs) ==
  [title |-> "Video", duration |-> format_duration(secs), link |-> id]

RevisionDay ==
  [title |-> "Revision Day", duration |-> format_duration(0), link |-> None]

\* item sequences of length n whose k-th item has link k
VideoLists(n) ==
  {[k \in 1..n |-> Video(k, ds[k])] : ds \in [1..n -> DurSet]}

(* ------------------- the schedule: an ordered dict --------------------- *)
\* schedule is a python dict keyed by "Day N": a sequence of entries in
\* insertion order, the key held as the number N
DictKeys(d) == {d[i].key : i \in 1..Len(d)}

DictGet(d, k) == d[CHOOSE i \in 1..Len(d) : d[i].key = k].val

DictSet(d, k, v) ==
  IF k \in DictKeys(d)
  THEN [i \in 1..Len(d) |-> IF d[i].key = k THEN [key |-> k, val |-> v] ELSE d[i]]
  ELSE Append(d, [key |-> k, val |-> v])

DictValues(d) == [i \in 1..Len(d) |-> d[i].val]

(* ------------------------------ state ---------------------------------- *)
VARIABLES
  pc,                \* position of the running function
  fn,                \* the packer that was called: "none", "time" or "day"
  video_details,     \* the item sequence handed to the packer
  daily_time_seconds,
  num_days,
  total_duration,
  schedule,
  current_day,
  current_videos,
  current_duration,
  idx,               \* position of the for loop in video_details
  outcome,           \* "none", "returned" or the exception raised
  summary,
  handler,           \* the request handler in progress: "none", "create", "adjust"
  db,                \* the stored schedule document
  completed_videos,  \* links collected by the handler
  completed_video_details,
  fetched,           \* what fetch_playlist_details returned to the handler
  response,          \* status code of the last response, 0 before any
  packer_call,       \* the packer call the handler made, with its argument
  seconds,           \* argument of format_duration
  duration_str,      \* the text format_duration returned
  parsed             \* what parse_duration made of duration_str

NoSummary == [totalVideos |-> -1]

vars == <<pc, fn, video_details, daily_time_seconds, num_days, total_duration,
          schedule, current_day, current_videos, current_duration, idx,
          outcome, summary, handler, db, completed_videos,
          completed_video_details, fetched, response, packer_call, seconds,
          duration_str, parsed>>

appVars == <<handler, db, completed_videos, completed_video_details, fetched,
             response, packer_call>>

codecVars == <<seconds, duration_str, parsed>>

NoCall == [function |-> "none", argument |-> 0]

NoDocument == [stored |-> FALSE, schedule_data |-> <<>>, summary |-> NoSummary]


Init ==
  /\ pc = "idle"
  /\ fn = "none"
  /\ video_details = <<>>
  /\ daily_time_seconds = 0
  /\ num_days = 0
  /\ total_duration = 0
  /\ schedule = <<>>
  /\ current_day = 0
  /\ current_videos = <<>>
  /\ current_duration = 0
  /\ idx = 0
  /\ outcome = "none"
  /\ summary = NoSummary
  /\ handler = "none"
  /\ db = NoDocument
  /\ completed_videos = <<>>
  /\ completed_video_details = <<>>
  /\ fetched = <<>>
  /\ response = 0
  /\ packer_call = NoCall
  /\ seconds = 0
  /\ duration_str = <<>>
  /\ parsed = 0

(* --------------------- create_schedule_time_based ---------------------- *)
\* lines 223-227: the locals before the loop
TimeBasedEntry(videos, daily_time_minutes) ==
  /\ video_details' = videos
  /\ daily_time_seconds' = daily_time_minutes * 60
  /\ schedule' = <<>>
  /\ current_day' = 1
  /\ current_videos' = <<>>
  /\ current_duration' = 0
  /\ idx' = 1
  /\ outcome' = "none"
  /\ fn' = "time"
  /\ pc' = "time_loop"

TimeBasedCall ==
  /\ UNCHANGED <<appVars, codecVars>>
  /\ handler = "none"
  /\ pc = "idle"
  /\ \E n \in 0..MaxItems : \E videos \in VideoLists(n) :
       \E m \in MinuteSet : TimeBasedEntry(videos, m)
  /\ UNCHANGED <<num_days, total_duration, summary>>

\* mutant: the open day is flushed without the test that it holds a video
TimeBasedOversized_AlwaysFlush(video) ==
  /\ schedule' = DictSet(DictSet(schedule, current_day, current_videos),
                         current_day + 1, <<video>>)
  /\ current_day' = current_day + 2
  /\ current_videos' = <<>>
  /\ current_duration' = 0

\* mutant: the day counter is not advanced after the open day is flushed
TimeBasedOversized_NoAdvance(video) ==
  LET flushed == IF current_videos # <<>>
                 THEN DictSet(schedule, current_day, current_videos)
                 ELSE schedule
  IN  /\ schedule' = DictSet(flushed, current_day, <<video>>)
      /\ current_day' = current_day + 1
      /\ current_videos' = <<>>
      /\ current_duration' = 0

\* lines 233-241: a video longer than the daily limit goes alone in a day
TimeBasedOversized(video) ==
  LET flushed == IF current_videos # <<>>
                 THEN DictSet(schedule, current_day, current_videos)
                 ELSE schedule
      day == IF current_videos # <<>> THEN current_day + 1 ELSE current_day
  IN  /\ schedule' = DictSet(flushed, day, <<video>>)
      /\ current_day' = day + 1
      /\ current_videos' = <<>>
      /\ current_duration' = 0

\* mutant: the day counter is not advanced when a full day is closed
TimeBasedFit_NoAdvance(video, duration) ==
  IF current_duration + duration <= daily_time_seconds
  THEN /\ current_videos' = Append(current_videos, video)
       /\ current_duration' = current_duration + duration
       /\ UNCHANGED <<schedule, current_day>>
  ELSE /\ schedule' = DictSet(schedule, current_day, current_videos)
       /\ current_day' = current_day
       /\ current_videos' = <<video>>
       /\ current_duration' = duration

\* mutant: a video that fills the day exactly does not fit (< instead of <=)
TimeBasedFit_Strict(video, duration) ==
  IF current_duration + duration < daily_time_seconds
  THEN /\ current_videos' = Append(current_videos, video)
       /\ current_duration' = current_duration + duration
       /\ UNCHANGED <<schedule, current_day>>
  ELSE /\ schedule' = DictSet(schedule, current_day, current_videos)
       /\ current_day' = current_day + 1
       /\ current_videos' = <<video>>
       /\ current_duration' = duration

\* mutant: the fit test forgets the duration of the video being placed
TimeBasedFit_NoAdd(video, duration) ==
  IF current_duration <= daily_time_seconds
  THEN /\ current_videos' = Append(current_videos, video)
       /\ current_duration' = current_duration + duration
       /\ UNCHANGED <<schedule, current_day>>
  ELSE /\ schedule' = DictSet(schedule, current_day, current_videos)
       /\ current_day' = current_day + 1
       /\ current_videos' = <<video>>
       /\ current_duration' = duration

\* lines 243-250: append when it fits, else close the day and start a new one
TimeBasedFit(video, duration) ==
  IF current_duration + duration <= daily_time_seconds
  THEN /\ current_videos' = Append(current_videos, video)
       /\ current_duration' = current_duration + duration
       /\ UNCHANGED <<schedule, current_day>>
  ELSE /\ schedule' = DictSet(schedule, current_day, current_videos)
       /\ current_day' = current_day + 1
       /\ current_videos' = <<video>>
       /\ current_duration' = duration

\* one iteration of the for loop, lines 229-250
TimeBasedStep ==
  /\ UNCHANGED <<appVars, codecVars>>
  /\ pc = "time_loop"
  /\ idx <= Len(video_details)
  /\ LET video == video_details[idx]
         duration == parse_duration(video.duration)
     IN  IF duration > daily_time_seconds
         THEN TimeBasedOversized(video)
         ELSE TimeBasedFit(video, duration)
  /\ idx' = idx + 1
  /\ UNCHANGED <<pc, fn, video_details, daily_time_seconds, num_days,
                 total_duration, outcome, summary>>

\* lines 252-255: flush the open day and return
TimeBasedReturn ==
  /\ UNCHANGED <<appVars, codecVars>>
  /\ pc = "time_loop"
  /\ idx > Len(video_details)
  /\ schedule' = IF current_videos # <<>>
                 THEN DictSet(schedule, current_day, current_videos)
                 ELSE schedule
  /\ outcome' = "returned"
  /\ pc' = "returned"
  /\ UNCHANGED <<fn, video_details, daily_time_seconds, num_days, total_duration,
                 current_day, current_videos, current_duration, idx, summary>>

(* --------------------- create_schedule_day_based ----------------------- *)
\* x > avg_daily, where avg_daily = total_duration / num_days is a float:
\* compared exactly by cross-multiplication (num_days is not 0 here)
ExceedsAvgDaily(x, total, days) ==
  IF days > 0 THEN x * days > total ELSE x * days < total

\* mutant: the test for an empty list is missing
DayBasedEntry_NoEmptyCheck(videos, days) ==
  /\ video_details' = videos
  /\ num_days' = days
  /\ fn' = "day"
  /\ schedule' = <<>>
  /\ current_videos' = <<>>
  /\ current_duration' = 0
  /\ idx' = 1
  /\ total_duration' =
       SumSeq([i \in 1..Len(videos) |-> parse_duration(videos[i].duration)])
  /\ IF days = 0
     THEN /\ pc' = "raised"
          /\ outcome' = "ZeroDivisionError"
          /\ UNCHANGED current_day
     ELSE /\ pc' = "day_loop"
          /\ outcome' = "none"
          /\ current_day' = 1

\* lines 260-270: empty input returns at once; the division raises for 0 days
DayBasedEntry(videos, days) ==
  /\ video_details' = videos
  /\ num_days' = days
  /\ fn' = "day"
  /\ schedule' = <<>>
  /\ current_videos' = <<>>
  /\ current_duration' = 0
  /\ idx' = 1
  /\ IF videos = <<>>
     THEN /\ pc' = "returned"
          /\ outcome' = "returned"
          /\ UNCHANGED <<total_duration, current_day>>
     ELSE /\ total_duration' =
               SumSeq([i \in 1..Len(videos) |-> parse_duration(videos[i].duration)])
          /\ IF days = 0
             THEN /\ pc' = "raised"
                  /\ outcome' = "ZeroDivisionError"
                  /\ UNCHANGED current_day
             ELSE /\ pc' = "day_loop"
                  /\ outcome' = "none"
                  /\ current_day' = 1

DayBasedCall ==
  /\ UNCHANGED <<appVars, codecVars>>
  /\ handler = "none"
  /\ pc = "idle"
  /\ \E n \in 0..MaxItems : \E videos \in VideoLists(n) :
       \E days \in DaySet : DayBasedEntry(videos, days)
  /\ UNCHANGED <<daily_time_seconds, summary>>

\* mutant: the loop stops one day early (>= instead of >)
DayBasedBody_BreakEarly(video, duration) ==
  IF ExceedsAvgDaily(current_duration + duration, total_duration, num_days)
       /\ current_videos # <<>>
  THEN /\ schedule' = DictSet(schedule, current_day, current_videos)
       /\ current_day' = current_day + 1
       /\ IF current_day + 1 >= num_days
          THEN /\ current_videos' = <<>>
               /\ current_duration' = 0
               /\ pc' = "day_flush"
               /\ UNCHANGED idx
          ELSE /\ current_videos' = <<video>>
               /\ current_duration' = duration
               /\ idx' = idx + 1
               /\ UNCHANGED pc
  ELSE /\ current_videos' = Append(current_videos, video)
       /\ current_duration' = current_duration + duration
       /\ idx' = idx + 1
       /\ UNCHANGED <<schedule, current_day, pc>>

\* lines 275-285 for one video: close the day on overflow, stop past the last
\* day, otherwise append
DayBasedBody(video, duration) ==
  IF ExceedsAvgDaily(current_duration + duration, total_duration, num_days)
       /\ current_videos # <<>>
  THEN /\ schedule' = DictSet(schedule, current_day, current_videos)
       /\ current_day' = current_day + 1
       /\ IF current_day + 1 > num_days
          THEN /\ current_videos' = <<>>
               /\ current_duration' = 0
               /\ pc' = "day_flush"
               /\ UNCHANGED idx
          ELSE /\ current_videos' = <<video>>
               /\ current_duration' = duration
               /\ idx' = idx + 1
               /\ UNCHANGED pc
  ELSE /\ current_videos' = Append(current_videos, video)
       /\ current_duration' = current_duration + duration
       /\ idx' = idx + 1
       /\ UNCHANGED <<schedule, current_day, pc>>

\* mutant: a video is put in front of the open day instead of behind it
DayBasedStep_Prepend ==
  /\ UNCHANGED <<appVars, codecVars>>
  /\ pc = "day_loop"
  /\ idx <= Len(video_details)
  /\ LET video == video_details[idx]
         duration == parse_duration(video.duration)
     IN  IF ExceedsAvgDaily(current_duration + duration, total_duration, num_days)
              /\ current_videos # <<>>
         THEN DayBasedBody(video, duration)
         ELSE /\ current_videos' = <<video>> \o current_videos
              /\ current_duration' = current_duration + duration
              /\ idx' = idx + 1
              /\ UNCHANGED <<schedule, current_day, pc>>
  /\ UNCHANGED <<fn, video_details, daily_time_seconds, num_days, total_duration,
                 outcome, summary>>

\* one iteration of the for loop, lines 272-285
DayBasedStep ==
  /\ UNCHANGED <<appVars, codecVars>>
  /\ pc = "day_loop"
  /\ idx <= Len(video_details)
  /\ LET video == video_details[idx]
     IN  DayBasedBody(video, parse_duration(video.duration))
  /\ UNCHANGED <<fn, video_details, daily_time_seconds, num_days, total_duration,
                 outcome, summary>>

\* the for loop runs out of videos
DayBasedLoopEnd ==
  /\ UNCHANGED <<appVars, codecVars>>
  /\ pc = "day_loop"
  /\ idx > Len(video_details)
  /\ pc' = "day_flush"
  /\ UNCHANGED <<fn, video_details, daily_time_seconds, num_days, total_duration,
                 schedule, current_day, current_videos, current_duration, idx,
                 outcome, summary>>

\* lines 287-288
DayBasedFlush ==
  /\ UNCHANGED <<appVars, codecVars>>
  /\ pc = "day_flush"
  /\ schedule' = IF current_videos # <<>> /\ current_day <= num_days
                 THEN DictSet(schedule, current_day, current_videos)
                 ELSE schedule
  /\ pc' = "day_fill"
  /\ UNCHANGED <<fn, video_details, daily_time_seconds, num_days, total_duration,
                 current_day, current_videos, current_duration, idx, outcome,
                 summary>>

\* mutant: the revision day is written before the day counter is advanced
DayBasedFill_WriteFirst ==
  /\ UNCHANGED <<appVars, codecVars>>
  /\ pc = "day_fill"
  /\ current_day < num_days
  /\ current_day' = current_day + 1
  /\ schedule' = DictSet(schedule, current_day, <<RevisionDay>>)
  /\ UNCHANGED <<pc, fn, video_details, daily_time_seconds, num_days,
                 total_duration, current_videos, current_duration, idx,
                 outcome, summary>>

\* lines 291-298: one revision day per iteration
DayBasedFill ==
  /\ UNCHANGED <<appVars, codecVars>>
  /\ pc = "day_fill"
  /\ current_day < num_days
  /\ current_day' = current_day + 1
  /\ schedule' = DictSet(schedule, current_day + 1, <<RevisionDay>>)
  /\ UNCHANGED <<pc, fn, video_details, daily_time_seconds, num_days,
                 total_duration, current_videos, current_duration, idx,
                 outcome, summary>>

\* line 300
DayBasedReturn ==
  /\ UNCHANGED <<appVars, codecVars>>
  /\ pc = "day_fill"
  /\ ~(current_day < num_days)
  /\ outcome' = "returned"
  /\ pc' = "returned"
  /\ UNCHANGED <<fn, video_details, daily_time_seconds, num_days, total_duration,
                 schedule, current_day, current_videos, current_duration, idx,
                 summary>>

(* ------------------------ get_schedule_summary ------------------------- *)
\* truth value of v.get('link'): a link is None or a non-empty string
Truthy(link) == link # None

\* mutant: every entry of a day is counted as a video, revision days included
get_schedule_summary_CountAll(sched) ==
  LET days == DictValues(sched)
      HasLink(v) == Truthy(v.link)
      IsStudy(day) == \E i \in 1..Len(day) : Truthy(day[i].link)
      DaySeconds(day) ==
        LET linked == SelectSeq(day, HasLink)
        IN  SumSeq([j \in 1..Len(linked) |-> parse_duration(linked[j].duration)])
      total_seconds == SumSeq([i \in 1..Len(days) |-> DaySeconds(days[i])])
      study_days == Len(SelectSeq(days, IsStudy))
  IN  [totalVideos |-> SumSeq([i \in 1..Len(days) |-> Len(days[i])]),
       totalDays |-> Len(sched),
       StudyDays |-> study_days,
       totalDuration |-> format_duration(total_seconds),
       averageDailyDuration |->
         IF study_days # 0 THEN format_duration(total_seconds \div study_days)
         ELSE <<"0", "0", ":", "0", "0", ":", "0", "0">>]

\* mutant: the average is taken over all days instead of the study days
get_schedule_summary_AllDays(sched) ==
  LET days == DictValues(sched)
      HasLink(v) == Truthy(v.link)
      NotNone(v) == v.link # None
      IsStudy(day) == \E i \in 1..Len(day) : Truthy(day[i].link)
      DaySeconds(day) ==
        LET linked == SelectSeq(day, HasLink)
        IN  SumSeq([j \in 1..Len(linked) |-> parse_duration(linked[j].duration)])
      total_seconds == SumSeq([i \in 1..Len(days) |-> DaySeconds(days[i])])
  IN  [totalVideos |-> SumSeq([i \in 1..Len(days) |-> Len(SelectSeq(days[i], NotNone))]),
       totalDays |-> Len(sched),
       StudyDays |-> Len(SelectSeq(days, IsStudy)),
       totalDuration |-> format_duration(total_seconds),
       averageDailyDuration |->
         IF Len(sched) # 0 THEN format_duration(total_seconds \div Len(sched))
         ELSE <<"0", "0", ":", "0", "0", ":", "0", "0">>]

get_schedule_summary(sched) ==
  LET days == DictValues(sched)
      HasLink(v) == Truthy(v.link)
      NotNone(v) == v.link # None
      IsStudy(day) == \E i \in 1..Len(day) : Truthy(day[i].link)
      total_days == Len(sched)
      study_days == Len(SelectSeq(days, IsStudy))
      total_videos == SumSeq([i \in 1..Len(days) |-> Len(SelectSeq(days[i], NotNone))])
      DaySeconds(day) ==
        LET linked == SelectSeq(day, HasLink)
        IN  SumSeq([j \in 1..Len(linked) |-> parse_duration(linked[j].duration)])
      total_seconds == SumSeq([i \in 1..Len(days) |-> DaySeconds(days[i])])
  IN  [totalVideos |-> total_videos,
       totalDays |-> total_days,
       StudyDays |-> study_days,
       totalDuration |-> format_duration(total_seconds),
       averageDailyDuration |->
         IF study_days # 0 THEN format_duration(total_seconds \div study_days)
         ELSE <<"0", "0", ":", "0", "0", ":", "0", "0">>]

\* main(), line 59: the summary of the schedule a packer returned
Summarize ==
  /\ UNCHANGED <<appVars, codecVars>>
  /\ handler = "none"
  /\ pc = "returned"
  /\ summary' = get_schedule_summary(schedule)
  /\ pc' = "summarized"
  /\ UNCHANGED <<fn, video_details, daily_time_seconds, num_days, total_duration,
                 schedule, current_day, current_videos, current_duration, idx,
                 outcome>>

\* schedules that hold revision days only
RevisionSchedules ==
  {[i \in 1..n |-> [key |-> i, val |-> <<RevisionDay>>]] : n \in 1..MaxDays}

\* get_schedule_summary called on a schedule without any video
SummaryCall ==
  /\ UNCHANGED <<appVars, codecVars>>
  /\ handler = "none"
  /\ pc = "idle"
  /\ \E sched \in RevisionSchedules :
       /\ schedule' = sched
       /\ summary' = get_schedule_summary(sched)
  /\ pc' = "summarized"
  /\ UNCHANGED <<fn, video_details, daily_time_seconds, num_days, total_duration,
                 current_day, current_videos, current_duration, idx, outcome>>

Next ==
  \/ SummaryCall
  \/ TimeBasedCall
  \/ TimeBasedStep
  \/ TimeBasedReturn
  \/ DayBasedCall
  \/ DayBasedStep
  \/ DayBasedLoopEnd
  \/ DayBasedFlush
  \/ DayBasedFill
  \/ DayBasedReturn
  \/ Summarize

Spec == Init /\ [][Next]_vars

(* ------------------------- api/app.py handlers ------------------------- *)
packerVars == <<pc, fn, video_details, daily_time_seconds, num_days,
                total_duration, schedule, current_day, current_videos,
                current_duration, idx, outcome, summary>>

\* item durations of the playlists the handlers fetch
FetchDurSet == {600, 1200}
\* dailyHours * 60 as create_schedule and adjust_schedule receive it
RequestMinuteSet == {0, 10, 20}
\* targetDays as create_schedule receives it
RequestDaySet == {0, 2}

LinkOrders(n) ==
  {f \in [1..n -> 1..n] : \A i, j \in 1..n : f[i] = f[j] => i = j}

\* what fetch_playlist_details can return: up to MaxFetch videos with distinct
\* links, in any order
FetchLists ==
  UNION {{[k \in 1..n |-> Video(f[k], ds[k])] :
            f \in LinkOrders(n), ds \in [1..n -> FetchDurSet]}
         : n \in 0..MaxFetch}

\* the parameters of create_schedule_time_based and create_schedule_day_based
TimeBasedParams == {"video_details", "daily_time_minutes"}
DayBasedParams == {"video_details", "num_days"}

\* a call with keyword arguments raises TypeError, before the body runs, when a
\* keyword is not a parameter of the function
RaisesTypeError(params, keywords) == ~(keywords \subseteq params)

\* the keywords of the calls at app.py:190-196, 206-212 and 291-296
CreateTimeKeywords ==
  {"video_details", "daily_time_minutes", "completed_videos",
   "last_day_number", "completed_video_details"}
CreateDayKeywords ==
  {"video_details", "num_days", "completed_videos", "last_day_number",
   "completed_video_details"}
AdjustKeywords ==
  {"video_details", "daily_time_minutes", "completed_videos",
   "completed_video_details"}

WithCompleted(video, flag) ==
  [title |-> video.title, duration |-> video.duration, link |-> video.link,
   completed |-> flag]

\* app.py:224-231: the stored form of a schedule, nothing completed yet
ScheduleData(sched) ==
  [i \in 1..Len(sched) |->
     [day |-> sched[i].key,
      videos |-> [j \in 1..Len(sched[i].val) |->
                    WithCompleted(sched[i].val[j], FALSE)]]]

RECURSIVE Splits(_)
\* the ways to cut a video list into consecutive non-empty days
Splits(videos) ==
  IF videos = <<>> THEN {<<>>}
  ELSE UNION {{<<SubSeq(videos, 1, k)>> \o rest :
                 rest \in Splits(SubSeq(videos, k + 1, Len(videos)))}
              : k \in 1..Len(videos)}

\* video lists in playlist order: the k-th video has link k
PlaylistLists ==
  UNION {{[k \in 1..n |-> Video(k, ds[k])] : ds \in [1..n -> FetchDurSet]}
         : n \in 1..MaxFetch}

\* the schedules a stored document can hold: days of videos in playlist
\* order, with or without a trailing revision day
StoredSchedules ==
  UNION {UNION {{[i \in 1..Len(days) |-> [key |-> i, val |-> days[i]]],
                 [i \in 1..(Len(days) + 1) |->
                    [key |-> i,
                     val |-> IF i <= Len(days) THEN days[i]
                             ELSE <<RevisionDay>>]]}
                : days \in Splits(videos)}
         : videos \in PlaylistLists}

Document(sched) ==
  [stored |-> TRUE, schedule_data |-> ScheduleData(sched),
   summary |-> get_schedule_summary(sched)]

\* the service starts against a collection that holds no schedule or one
\* schedule document in the form create_schedule stores
InitApp ==
  /\ pc = "idle"
  /\ fn = "none"
  /\ video_details = <<>>
  /\ daily_time_seconds = 0
  /\ num_days = 0
  /\ total_duration = 0
  /\ schedule = <<>>
  /\ current_day = 0
  /\ current_videos = <<>>
  /\ current_duration = 0
  /\ idx = 0
  /\ outcome = "none"
  /\ summary = NoSummary
  /\ handler = "none"
  /\ db \in {NoDocument} \cup {Document(sched) : sched \in StoredSchedules}
  /\ completed_videos = <<>>
  /\ completed_video_details = <<>>
  /\ fetched = <<>>
  /\ response = 0
  /\ packer_call = NoCall
  /\ seconds = 0
  /\ duration_str = <<>>
  /\ parsed = 0

\* create_schedule, app.py:146-250, from the fetch on.  The packer is called
\* with keywords it does not take: the TypeError is not a ValueError, so the
\* handler's last except clause answers 500 and nothing is stored.
CreateSchedule ==
  /\ pc = "idle"
  /\ handler = "none"
  /\ handler' = "create"
  /\ UNCHANGED codecVars
  /\ completed_videos' = <<>>
  /\ completed_video_details' = <<>>
  /\ UNCHANGED db
  /\ \E videos \in FetchLists, schedule_type \in {"daily", "days"},
        daily_minutes \in RequestMinuteSet, target_days \in RequestDaySet :
       /\ fetched' = videos
       /\ packer_call' =
            IF videos = <<>> THEN NoCall
            ELSE IF schedule_type = "daily"
            THEN IF daily_minutes <= 10 THEN NoCall
                 ELSE [function |-> "create_schedule_time_based",
                       argument |-> daily_minutes]
            ELSE IF target_days <= 0 THEN NoCall
                 ELSE [function |-> "create_schedule_day_based",
                       argument |-> target_days]
       /\ IF videos = <<>>
          THEN response' = 400 /\ UNCHANGED packerVars
          ELSE IF schedule_type = "daily"
          THEN IF daily_minutes <= 10
               THEN response' = 400 /\ UNCHANGED packerVars
               ELSE IF RaisesTypeError(TimeBasedParams, CreateTimeKeywords)
               THEN response' = 500 /\ UNCHANGED packerVars
               ELSE /\ TimeBasedEntry(videos, daily_minutes)
                    /\ UNCHANGED <<response, num_days, total_duration, summary>>
          ELSE IF target_days <= 0
               THEN response' = 400 /\ UNCHANGED packerVars
               ELSE IF RaisesTypeError(DayBasedParams, CreateDayKeywords)
               THEN response' = 500 /\ UNCHANGED packerVars
               ELSE /\ DayBasedEntry(videos, target_days)
                    /\ UNCHANGED <<response, daily_time_seconds, summary>>

\* the update of app.py:379-391: every video with this link, in every day
SetCompleted(schedule_data, video_id, completed) ==
  [i \in 1..Len(schedule_data) |->
     [day |-> schedule_data[i].day,
      videos |-> [j \in 1..Len(schedule_data[i].videos) |->
                    IF schedule_data[i].videos[j].link = video_id
                    THEN WithCompleted(schedule_data[i].videos[j], completed)
                    ELSE schedule_data[i].videos[j]]]]

\* update_video_progress, app.py:364-399
UpdateVideoProgress ==
  /\ pc = "idle"
  /\ handler = "none"
  /\ handler' = "progress"
  /\ packer_call' = NoCall
  /\ UNCHANGED codecVars
  /\ completed_videos' = <<>>
  /\ completed_video_details' = <<>>
  /\ fetched' = <<>>
  /\ UNCHANGED packerVars
  /\ \E video_id \in (1..MaxFetch) \cup {None}, completed \in BOOLEAN :
       IF db.stored
            /\ \E i \in 1..Len(db.schedule_data) :
                 \E j \in 1..Len(db.schedule_data[i].videos) :
                   db.schedule_data[i].videos[j].link = video_id
       THEN /\ db' = [db EXCEPT !.schedule_data =
                        SetCompleted(db.schedule_data, video_id, completed)]
            /\ response' = 200
       ELSE /\ response' = 404
            /\ UNCHANGED db

\* app.py:273-277: the completed videos of the stored schedule, day by day
CompletedDetails(schedule_data) ==
  LET Done(v) == v.completed
  IN  SelectSeqOf([i \in 1..Len(schedule_data) |->
                     SelectSeq(schedule_data[i].videos, Done)], <<>>)

\* adjust_schedule, app.py:253-344.  Like create_schedule it calls the packer
\* with keywords the function does not take; the TypeError is caught by the
\* handler's except clause, which answers 500 and leaves the document alone.
AdjustSchedule ==
  /\ pc = "idle"
  /\ handler = "none"
  /\ handler' = "adjust"
  /\ UNCHANGED db
  /\ UNCHANGED codecVars
  /\ \E videos \in FetchLists, daily_minutes \in RequestMinuteSet :
       IF ~db.stored
       THEN /\ response' = 404
            /\ completed_videos' = <<>>
            /\ completed_video_details' = <<>>
            /\ fetched' = <<>>
            /\ packer_call' = NoCall
            /\ UNCHANGED packerVars
       ELSE /\ completed_video_details' = CompletedDetails(db.schedule_data)
            /\ completed_videos' =
                 [i \in 1..Len(CompletedDetails(db.schedule_data)) |->
                    CompletedDetails(db.schedule_data)[i].link]
            /\ fetched' = videos
            /\ packer_call' =
                 IF videos = <<>> THEN NoCall
                 ELSE [function |-> "create_schedule_time_based",
                       argument |-> daily_minutes]
            /\ IF videos = <<>>
               THEN response' = 400 /\ UNCHANGED packerVars
               ELSE IF RaisesTypeError(TimeBasedParams, AdjustKeywords)
               THEN response' = 500 /\ UNCHANGED packerVars
               ELSE /\ TimeBasedEntry(videos, daily_minutes)
                    /\ UNCHANGED <<response, num_days, total_duration, summary>>

\* the handler returns its response; its locals are gone
Respond ==
  /\ pc = "idle"
  /\ handler # "none"
  /\ handler' = "none"
  /\ completed_videos' = <<>>
  /\ completed_video_details' = <<>>
  /\ fetched' = <<>>
  /\ response' = 0
  /\ packer_call' = NoCall
  /\ UNCHANGED db
  /\ UNCHANGED packerVars
  /\ UNCHANGED codecVars

NextApp ==
  \/ CreateSchedule
  \/ UpdateVideoProgress
  \/ AdjustSchedule
  \/ Respond

SpecApp == InitApp /\ [][NextApp]_vars

(* ------------------- duration codec, called on its own ----------------- *)
InitCodec ==
  /\ pc = "idle"
  /\ fn = "none"
  /\ video_details = <<>>
  /\ daily_time_seconds = 0
  /\ num_days = 0
  /\ total_duration = 0
  /\ schedule = <<>>
  /\ current_day = 0
  /\ current_videos = <<>>
  /\ current_duration = 0
  /\ idx = 0
  /\ outcome = "none"
  /\ summary = NoSummary
  /\ handler = "none"
  /\ db = NoDocument
  /\ completed_videos = <<>>
  /\ completed_video_details = <<>>
  /\ fetched = <<>>
  /\ response = 0
  /\ packer_call = NoCall
  /\ seconds \in CodecSeconds
  /\ duration_str = <<>>
  /\ parsed = 0

\* format_duration(seconds), model.py:111-115
FormatDuration ==
  /\ pc = "idle"
  /\ duration_str' = format_duration(seconds)
  /\ pc' = "formatted"
  /\ UNCHANGED <<fn, video_details, daily_time_seconds, num_days,
                 total_duration, schedule, current_day, current_videos,
                 current_duration, idx, outcome, summary, appVars, seconds,
                 parsed>>

\* parse_duration of the text just formatted, model.py:137-141
ParseDuration ==
  /\ pc = "formatted"
  /\ parsed' = parse_duration(duration_str)
  /\ pc' = "parsed"
  /\ UNCHANGED <<fn, video_details, daily_time_seconds, num_days,
                 total_duration, schedule, current_day, current_videos,
                 current_duration, idx, outcome, summary, appVars, seconds,
                 duration_str>>

NextCodec ==
  \/ FormatDuration
  \/ ParseDuration

SpecCodec == InitCodec /\ [][NextCodec]_vars

(* ----------------------------- properties ------------------------------ *)
\* all items of a schedule, days in insertion order
Flatten(sched) == SelectSeqOf(DictValues(sched), <<>>)

IsFiller(v) == v.link = None

NonFiller(items) == LET Real(v) == ~IsFiller(v) IN SelectSeq(items, Real)

Occurrences(items, v) == Cardinality({i \in 1..Len(items) : items[i] = v})

Seconds(items) ==
  SumSeq([i \in 1..Len(items) |-> parse_duration(items[i].duration)])

RECURSIVE IsSubsequence(_, _)
IsSubsequence(a, b) ==
  IF a = <<>> THEN TRUE
  ELSE IF b = <<>> THEN FALSE
  ELSE IF Head(a) = Head(b) THEN IsSubsequence(Tail(a), Tail(b))
  ELSE IsSubsequence(a, Tail(b))

TimeDone == fn = "time" /\ outcome = "returned"
DayDone == fn = "day" /\ outcome = "returned"

\* C1: the time-budget packer returns every input item exactly once, whole,
\* whatever the budget, oversized items included
C1_TimeBudgetConservation ==
  TimeDone =>
    \A v \in Range(video_details) \cup Range(Flatten(schedule)) :
      Occurrences(Flatten(schedule), v) = Occurrences(video_details, v)

C1_Witness ==
  /\ TimeDone
  /\ Len(video_details) >= 3
  /\ Len(schedule) >= 2
  /\ \E i \in 1..Len(video_details) :
       parse_duration(video_details[i].duration) > daily_time_seconds
  /\ \E i \in 1..Len(schedule) : Len(schedule[i].val) >= 2

\* C2: for a non-empty input and a positive number of days the day-count
\* packer loses no input item
C2_DayCountConservation ==
  (DayDone /\ video_details # <<>> /\ num_days > 0) =>
    \A v \in Range(video_details) : Occurrences(Flatten(schedule), v) = 1

\* C3: every day of the time-budget packer sums to at most the budget unless
\* it holds exactly one video that is itself longer than the budget; the call
\* returns without an error
C3_BudgetRespect ==
  (fn = "time" /\ pc \in {"returned", "summarized"}) =>
    /\ outcome = "returned"
    /\ \A i \in 1..Len(schedule) :
         LET day == schedule[i].val
         IN  \/ Seconds(day) <= daily_time_seconds
             \/ /\ Len(day) = 1
                /\ parse_duration(day[1].duration) > daily_time_seconds
    /\ \A i \in 1..Len(schedule) : \A j \in 1..Len(schedule[i].val) :
         parse_duration(schedule[i].val[j].duration) > daily_time_seconds
           => Len(schedule[i].val) = 1

C3_Witness ==
  /\ TimeDone
  /\ daily_time_seconds > 0
  /\ \E i \in 1..Len(schedule) :
       /\ Len(schedule[i].val) = 1
       /\ Seconds(schedule[i].val) > daily_time_seconds
  /\ \E i \in 1..Len(schedule) :
       /\ Len(schedule[i].val) >= 2
       /\ Seconds(schedule[i].val) = daily_time_seconds

\* C4: for a non-empty input and num_days > 0 the day-count packer returns
\* exactly num_days days, labelled 1..num_days
C4_TargetCountExact ==
  (DayDone /\ video_details # <<>> /\ num_days > 0) =>
    /\ Len(schedule) = num_days
    /\ DictKeys(schedule) = 1..num_days

C4_Witness ==
  /\ DayDone
  /\ Len(video_details) >= 3
  /\ num_days = 2
  /\ Len(NonFiller(Flatten(schedule))) < Len(video_details)

\* C5: after adjust_schedule has re-planned a stored schedule from a freshly
\* fetched list, every link that was completed before and is still fetched is
\* marked completed in the stored schedule, sits in the pinned day that holds
\* the completed videos, and was not handed to the packer
C5_CompletionStable ==
  (handler = "adjust" /\ db.stored /\ fetched # <<>>) =>
    \A l \in Range(completed_videos) \cap
               {fetched[k].link : k \in 1..Len(fetched)} :
         /\ response = 200
         /\ \A k \in 1..Len(video_details) : video_details[k].link # l
         /\ \A i \in 1..Len(db.schedule_data) :
              \A j \in 1..Len(db.schedule_data[i].videos) :
                db.schedule_data[i].videos[j].link = l =>
                  /\ db.schedule_data[i].videos[j].completed
                  /\ [k \in 1..Len(db.schedule_data[i].videos) |->
                        db.schedule_data[i].videos[k].link] = completed_videos
         /\ \E i \in 1..Len(db.schedule_data) :
              \E j \in 1..Len(db.schedule_data[i].videos) :
                db.schedule_data[i].videos[j].link = l

\* C6: both packers keep the input order: the non-filler items read day by
\* day are in the relative order of the input
C6_OrderKept ==
  (TimeDone \/ DayDone) =>
    IsSubsequence(NonFiller(Flatten(schedule)), video_details)

C6_Witness ==
  /\ DayDone
  /\ Cardinality({i \in 1..Len(schedule) : Len(schedule[i].val) >= 2}) >= 2

\* C7: after the last day holding real videos, every day up to num_days holds
\* exactly the one revision-day item; no revision day precedes a day with real
\* videos and no day mixes the two
LastRealDay(sched) ==
  LET real == {sched[i].key : i \in {j \in 1..Len(sched) :
                                      NonFiller(sched[j].val) # <<>>}}
  IN  IF real = {} THEN 0 ELSE CHOOSE k \in real : \A m \in real : m <= k

C7_FillerPadding ==
  (DayDone /\ video_details # <<>> /\ num_days > 0) =>
    /\ \A k \in (LastRealDay(schedule) + 1)..num_days :
         /\ k \in DictKeys(schedule)
         /\ DictGet(schedule, k) =
              <<[title |-> "Revision Day",
                 duration |-> <<"0", "0", ":", "0", "0", ":", "0", "0">>,
                 link |-> None]>>
    /\ \A i \in 1..Len(schedule) :
         \/ NonFiller(schedule[i].val) = schedule[i].val
         \/ NonFiller(schedule[i].val) = <<>> /\ Len(schedule[i].val) = 1
    /\ \A i, j \in 1..Len(schedule) :
         (NonFiller(schedule[i].val) = <<>> /\ NonFiller(schedule[j].val) # <<>>)
           => schedule[i].key > schedule[j].key

C7_Witness ==
  /\ DayDone
  /\ LastRealDay(schedule) >= 2
  /\ num_days >= LastRealDay(schedule) + 2
  /\ Len(schedule) = num_days

\* C8: the summary counts all days, the days with at least one non-filler
\* item, the non-filler items, and the seconds of the non-filler items only
C8_SummaryCounts ==
  pc = "summarized" =>
    /\ summary.totalDays = Len(schedule)
    /\ summary.StudyDays =
         Cardinality({i \in 1..Len(schedule) :
                        \E j \in 1..Len(schedule[i].val) :
                          ~IsFiller(schedule[i].val[j])})
    /\ summary.totalVideos = Len(NonFiller(Flatten(schedule)))
    /\ summary.totalDuration =
         format_duration(Seconds(NonFiller(Flatten(schedule))))

C8_Witness ==
  /\ pc = "summarized"
  /\ summary.totalVideos >= 3
  /\ summary.StudyDays >= 2
  /\ summary.totalDays > summary.StudyDays
  /\ parse_duration(summary.totalDuration) >= 1800

\* C9: the average is the total seconds divided by the study days, and with
\* no study day the summary is still produced, with average "00:00:00"
C9_AverageNeverFails ==
  pc = "summarized" =>
    /\ summary.StudyDays = 0 =>
         summary.averageDailyDuration = <<"0", "0", ":", "0", "0", ":", "0", "0">>
    /\ summary.StudyDays > 0 =>
         parse_duration(summary.averageDailyDuration) =
           Seconds(NonFiller(Flatten(schedule))) \div summary.StudyDays

C9_Witness ==
  /\ pc = "summarized"
  /\ summary.StudyDays = 0
  /\ summary.averageDailyDuration = format_duration(0)

\* C10: a packer called with a non-positive budget or number of days returns
\* no schedule: it fails before it allocates anything
C10_InvalidRejected ==
  /\ (fn = "time" /\ daily_time_seconds <= 0) =>
       (pc # "time_loop" /\ outcome # "returned")
  /\ (fn = "day" /\ num_days <= 0) =>
       (pc \notin {"day_loop", "day_flush", "day_fill"} /\ outcome # "returned")

\* C11: whenever create_schedule or adjust_schedule calls the time-budget
\* packer, the daily study time it passes has passed the check for more than
\* 10 minutes
C11_MinimumBudgetChecked ==
  packer_call.function = "create_schedule_time_based"
    => packer_call.argument > 10

\* C12: parsing the text format_duration made of s gives s back, for hours
\* below and above 24 and 99; the text has three parts, the minutes and the
\* seconds written with two digits and at most 59
C12_RoundTrip ==
  /\ pc = "parsed" => parsed = seconds
  /\ pc \in {"formatted", "parsed"} =>
       LET parts == Split(duration_str, <<>>, <<>>)
       IN  /\ Len(parts) = 3
           /\ Len(parts[1]) >= 2
           /\ Len(parts[2]) = 2 /\ StrToInt(parts[2], 0) \in 0..59
           /\ Len(parts[3]) = 2 /\ StrToInt(parts[3], 0) \in 0..59

C12_Witness ==
  /\ pc = "parsed"
  /\ seconds > 99 * 3600 + 59 * 60
  /\ Len(duration_str) >= 9
  /\ parsed = seconds

\* C13: for an empty item sequence both packers return a schedule without any
\* day, whatever the number of days or the budget, and neither raises
C13_EmptyInput ==
  (fn \in {"time", "day"} /\ video_details = <<>>) =>
    /\ schedule = <<>>
    /\ pc \in {"time_loop", "returned", "summarized"}
    /\ pc # "time_loop" => outcome = "returned"

C13_Witness ==
  /\ DayDone
  /\ video_details = <<>>
  /\ num_days >= 2
  /\ schedule = <<>>

\* C14: the days of a schedule are always labelled 1..k in the order they were
\* created, and a packer never writes a label that is already in the schedule
SequentialLabels(sched) == \A i \in 1..Len(sched) : sched[i].key = i

C14_SequentialLabels ==
  [][/\ SequentialLabels(schedule')
     /\ pc # "idle" =>
          /\ Len(schedule') >= Len(schedule)
          /\ SubSeq(schedule', 1, Len(schedule)) = schedule]_vars

C14_Witness ==
  /\ TimeDone
  /\ Len(schedule) >= 3
  /\ DictKeys(schedule) = 1..Len(schedule)
  /\ \E i \in 1..Len(schedule) : Len(schedule[i].val) >= 2

\* C15: in the output of the time-budget packer the first video of each day
\* did not fit in the day before it, a video that fills the day exactly does
\* fit, and 600s, 600s, 1200s under 1200s gives [v1, v2], [v3]
C15_GreedyFirstFit ==
  TimeDone =>
    /\ \A i \in 1..(Len(schedule) - 1) :
         Seconds(schedule[i].val)
           + parse_duration(schedule[i + 1].val[1].duration)
           > daily_time_seconds
    /\ (/\ daily_time_seconds = 1200
        /\ video_details = <<Video(1, 600), Video(2, 600), Video(3, 1200)>>)
         => schedule = <<[key |-> 1, val |-> <<Video(1, 600), Video(2, 600)>>],
                         [key |-> 2, val |-> <<Video(3, 1200)>>]>>

C15_Witness ==
  /\ TimeDone
  /\ daily_time_seconds = 1200
  /\ video_details = <<Video(1, 600), Video(2, 600), Video(3, 1200)>>
  /\ Len(schedule) = 2

\* C16: the day-count packer closes a day only when a next day is left, so
\* day num_days is not written while the loop runs; every day before
\* num_days holds a single video or sums to at most the average load
C16_ClosingRule ==
  (fn = "day" /\ num_days > 0 /\ video_details # <<>>) =>
    /\ pc \in {"day_loop", "day_flush"} => num_days \notin DictKeys(schedule)
    /\ outcome = "returned" =>
         \A i \in 1..Len(schedule) :
           schedule[i].key < num_days =>
             \/ Len(schedule[i].val) = 1
             \/ Seconds(schedule[i].val) * num_days <= total_duration

\* C17: no day of a schedule is ever empty, during the loops and in the
\* result, and the time-budget packer closes a day only when it holds a video
C17_NoEmptyBucket ==
  /\ fn \in {"time", "day"} =>
       \A i \in 1..Len(schedule) : schedule[i].val # <<>>
  /\ (pc = "time_loop" /\ idx <= Len(video_details)) =>
       LET duration == parse_duration(video_details[idx].duration)
       IN  (/\ duration <= daily_time_seconds
            /\ current_duration + duration > daily_time_seconds)
             => current_videos # <<>>

C17_Witness ==
  /\ pc = "time_loop"
  /\ idx <= Len(video_details)
  /\ Len(schedule) >= 1
  /\ parse_duration(video_details[idx].duration) <= daily_time_seconds
  /\ current_duration + parse_duration(video_details[idx].duration)
       > daily_time_seconds
  /\ \E j \in 1..Len(current_videos) :
       parse_duration(current_videos[j].duration) = 0
====
